---- MODULE Spec2Model ----
(***************************************************************************)
(* Interest accrual and reimbursement lifecycle engine of morpho-apr.      *)
(*                                                                         *)
(* The store is the PostgreSQL schema (markets, vault_allocations,         *)
(* borrower_positions, interest_snapshots, vault_supply_snapshots,         *)
(* reimbursements).  Amounts are fixed-point integers in micro-tokens      *)
(* (10^-6), annual rates and caps are integers in percent.  Days and       *)
(* timestamps are integers; NULL is 0.                                     *)
(***************************************************************************)
EXTENDS Integers, Sequences, FiniteSets, TLC

\* ------------------------------------------------------------- bounds ----
MaxDay   == 2   \* calendar days the model runs through
MaxClock == 5   \* timestamps NOW() hands out
MaxSnap  == 4   \* rows of interest_snapshots
MaxReimb == 6   \* rows of reimbursements
MaxLimit == 3   \* largest batch limit passed to process / retry
MaxPositions == 3   \* rows of borrower_positions

\* ---------------------------------------------------------- constants ----
DaysPerYear == 365
NULL        == 0

Markets   == {1, 2}
PosIds    == {1, 2}
Days      == 1..MaxDay
Caps      == {10, 20}           \* apr_cap values an administrator sets (percent)
Hashes    == {1, 2}             \* transaction hashes simulatePayment returns
Limits    == 1..MaxLimit
\* What getMarketState answers: a market with state (annual rates in percent),
\* a market without state, or an exception (no market, GraphQL error, timeout).
NoState   == [kind |-> "NoState", borrowApy |-> 0, supplyApy |-> 0]
Throws    == [kind |-> "Throws", borrowApy |-> 0, supplyApy |-> 0]
RateResp  == {[kind |-> "ok", borrowApy |-> 18, supplyApy |-> 15],
              [kind |-> "ok", borrowApy |-> 8, supplyApy |-> 6],
              NoState, Throws}

VARIABLES
  today,                  \* CURRENT_DATE
  now,                    \* last timestamp handed out by NOW()
  apr_cap,                \* markets.apr_cap, per market
  market_state,           \* what the rate source answers, per market
  supply_assets,          \* vault_allocations.supply_assets of the one allocation
  borrower_positions,     \* id -> row
  interest_snapshots,     \* sequence of rows (index = serial id)
  vault_supply_snapshots, \* set of rows, unique per (vault, market, day)
  reimbursements,         \* sequence of rows (index = serial id)
  tx,                     \* the open processPendingReimbursements transaction
  peer,                   \* the transaction of an overlapping invocation
  payments,               \* reimbursement id -> payments executed successfully
  last,                   \* summary of the last completed call
  pre                     \* tables as they were when the last call started

vars == <<today, now, apr_cap, market_state, supply_assets, borrower_positions,
          interest_snapshots, vault_supply_snapshots, reimbursements,
          tx, peer, payments, last, pre>>

\* ------------------------------------------------------------ helpers ----
Max(a, b) == IF a >= b THEN a ELSE b
Min(a, b) == IF a <= b THEN a ELSE b

RECURSIVE SetToSeq(_)
SetToSeq(S) ==
  IF S = {} THEN <<>>
  ELSE LET m == CHOOSE x \in S : \A y \in S : x <= y
       IN  <<m>> \o SetToSeq(S \ {m})

\* The unrounded value principal * (ratePct / 100) / 365 in micro-tokens, kept
\* as whole + part / Denominator (the product is split so that it stays
\* within 32-bit integers); the error of the floating-point operations
\* lies far below the resolution of the model.
Denominator == 100 * DaysPerYear
Product(principal, ratePct) ==
  [whole |-> (principal \div Denominator) * ratePct,
   part  |-> (principal % Denominator) * ratePct]
Difference(a, b) == [whole |-> a.whole - b.whole, part |-> a.part - b.part]
IsNegative(x) == x.whole + (x.part \div Denominator) < 0
IsPositive(x) ==
  \/ x.whole + (x.part \div Denominator) > 0
  \/ x.whole + (x.part \div Denominator) = 0 /\ x.part % Denominator > 0
\* Variant: the difference is stored without the clamp at zero.
MathMax0_NoClamp(x) == x

\* Math.max(0, x)
MathMax0(x) == IF IsNegative(x) THEN [whole |-> 0, part |-> 0] ELSE x
\* The value a DECIMAL column keeps, at the resolution of the model
\* (micro-tokens, rounded half up).
Stored(x) == x.whole + ((x.part + (Denominator \div 2)) \div Denominator)

\* principal * (ratePct / 100) / 365 as stored.
DailyInterest(principal, ratePct) == Stored(Product(principal, ratePct))

IdleTx == [pc |-> "idle", limit |-> 0, sel |-> <<>>, out |-> <<>>, start |-> 0]
\* last after an event that is no call of the engine (the day, a cap or the
\* rate source changed) and before the first call.
NoCall == [op |-> "none", arg |-> 0, ret |-> 0, sel |-> <<>>, out |-> <<>>,
           rep |-> FALSE]
Pre    == [reimbursements |-> reimbursements,
           interest_snapshots |-> interest_snapshots,
           vault_supply_snapshots |-> vault_supply_snapshots,
           borrower_positions |-> borrower_positions,
           supply_assets |-> supply_assets]

\* ---------------------------------------------------------------- Init ----
Init ==
  /\ today = 1
  /\ now = 0
  /\ apr_cap = [m \in Markets |-> 10]
  /\ market_state = [m \in Markets |-> [kind |-> "ok", borrowApy |-> 18, supplyApy |-> 15]]
  /\ supply_assets = 1000000000
  /\ borrower_positions =
       [p \in PosIds |-> [market_id |-> 1, borrower_id |-> p, vault_id |-> NULL,
                          current_debt |-> 1000000000, status |-> "active"]]
  /\ interest_snapshots = <<>>
  /\ vault_supply_snapshots = {}
  /\ reimbursements = <<>>
  /\ tx = IdleTx
  /\ peer = IdleTx
  /\ payments = [i \in 1..MaxReimb |-> 0]
  /\ last = NoCall
  /\ pre = [reimbursements |-> <<>>, interest_snapshots |-> <<>>,
            vault_supply_snapshots |-> {}, borrower_positions |-> borrower_positions,
            supply_assets |-> supply_assets]

\* ------------------------------------------------- Snapshot Engine: vault ----
\* VaultSupplyService.getActiveVaultAllocations: WHERE va.supply_assets > 0
ActiveAllocations == IF supply_assets > 0 THEN {"alloc"} ELSE {}

\* Variant: ON CONFLICT ... DO NOTHING (the existing row is kept).
SaveSupplySnapshot_DoNothing(table, row) ==
  IF \E r \in table : /\ r.vault_id = row.vault_id
                       /\ r.market_id = row.market_id
                       /\ r.snapshot_date = row.snapshot_date
  THEN table ELSE table \cup {row}

\* INSERT ... ON CONFLICT (vault_id, market_id, snapshot_date) DO UPDATE SET ...
SaveSupplySnapshot(table, row) ==
  {r \in table : ~(/\ r.vault_id = row.vault_id
                   /\ r.market_id = row.market_id
                   /\ r.snapshot_date = row.snapshot_date)} \cup {row}

\* The row processAllocation computes for the allocation (vault 1, market 1).
SupplyRow(supplyApy) ==
  LET cappedApy      == apr_cap[1]
      interestEarned == Product(supply_assets, supplyApy)
      cappedInterest == Product(supply_assets, cappedApy)
      interestAboveCap == MathMax0(Difference(interestEarned, cappedInterest))
  IN  [vault_id |-> 1, market_id |-> 1, snapshot_date |-> today,
       supply_amount |-> supply_assets, supply_apy |-> supplyApy,
       capped_apy |-> cappedApy, interest_earned |-> Stored(interestEarned),
       interest_above_cap |-> Stored(interestAboveCap)]

\* VaultSupplyService.processAllocation: the table after the call.
ProcessAllocation(table, resp) ==
  IF resp.kind = "ok" THEN SaveSupplySnapshot(table, SupplyRow(resp.supplyApy))
  ELSE table

\* processedCount of processDailySupplySnapshots: every call that returns
\* normally is counted, the early return on a market without state included.
VaultProcessedCount(resp) ==
  Cardinality({a \in ActiveAllocations : resp # Throws})

VaultPhase(resp) ==
  IF ActiveAllocations = {} THEN vault_supply_snapshots
  ELSE ProcessAllocation(vault_supply_snapshots, resp)

\* ---------------------------------------------- Snapshot Engine: borrower ----
\* InterestService.getActivePositions: WHERE bp.status = 'active' ORDER BY bp.id
ActivePositions ==
  SetToSeq({p \in DOMAIN borrower_positions :
              borrower_positions[p].status = "active"})

\* InterestService.saveInterestSnapshot: a plain INSERT.
SaveInterestSnapshot(table, row) == Append(table, row)

\* InterestService.createReimbursement: a plain INSERT; period_start is
\* CURRENT_DATE - 1 day, period_end CURRENT_DATE, created_at DEFAULT NOW().
CreateReimbursement(table, positionId, amount, at) ==
  Append(table, [position_id |-> positionId, amount |-> amount,
                 period_start |-> today - 1, period_end |-> today,
                 status |-> "pending", tx_hash |-> NULL,
                 created_at |-> at, processed_at |-> NULL])

\* Variant: the debt is left as it was.
UpdatePositionDebt_Skipped(positions, p, newDebt) == positions

\* InterestService.updatePositionDebt: UPDATE ... SET current_debt = $1
UpdatePositionDebt(positions, p, newDebt) ==
  [positions EXCEPT ![p].current_debt = newDebt]

\* The interest a run has added so far to the debts of the positions in S.
RECURSIVE AddedInterest(_, _)
AddedInterest(positions, S) ==
  IF S = {} THEN 0
  ELSE LET q == CHOOSE x \in S : TRUE
       IN  positions[q].current_debt - borrower_positions[q].current_debt
             + AddedInterest(positions, S \ {q})

\* Variant: the accrual is computed on a running balance, the position's debt
\* plus the interest the run has already added to the positions before it.
ProcessPosition_RunningBalance(st, p, resp) ==
  IF resp.kind # "ok" THEN st
  ELSE
    LET position   == borrower_positions[p]
        principal  == position.current_debt + AddedInterest(st.pos, DOMAIN st.pos)
        cappedRate == apr_cap[position.market_id]
        interestAccrued  == Product(principal, resp.borrowApy)
        cappedInterest   == Product(principal, cappedRate)
        interestAboveCap == MathMax0(Difference(interestAccrued, cappedInterest))
    IN  [snaps  |-> Append(st.snaps,
                      [position_id |-> p, snapshot_date |-> today,
                       current_rate |-> resp.borrowApy, capped_rate |-> cappedRate,
                       interest_accrued |-> Stored(interestAccrued),
                       interest_above_cap |-> Stored(interestAboveCap)]),
         reimbs |-> IF IsPositive(interestAboveCap)
                    THEN Append(st.reimbs,
                           [position_id |-> p, amount |-> Stored(interestAboveCap),
                            period_start |-> today - 1, period_end |-> today,
                            status |-> "pending", tx_hash |-> NULL,
                            created_at |-> st.now + 1, processed_at |-> NULL])
                    ELSE st.reimbs,
         pos    |-> [st.pos EXCEPT ![p].current_debt =
                       position.current_debt + Stored(interestAccrued)],
         now    |-> IF IsPositive(interestAboveCap) THEN st.now + 1 ELSE st.now]

\* InterestService.processPosition on the position row read at the start of
\* the run; st carries the tables and the clock through the run.
ProcessPosition(st, p, resp) ==
  IF resp.kind # "ok" THEN st
  ELSE
    LET position         == borrower_positions[p]
        cappedRate       == apr_cap[position.market_id]
        interestAccrued  == Product(position.current_debt, resp.borrowApy)
        cappedInterest   == Product(position.current_debt, cappedRate)
        interestAboveCap == MathMax0(Difference(interestAccrued, cappedInterest))
        snaps == SaveInterestSnapshot(st.snaps,
                   [position_id |-> p, snapshot_date |-> today,
                    current_rate |-> resp.borrowApy, capped_rate |-> cappedRate,
                    interest_accrued |-> Stored(interestAccrued),
                    interest_above_cap |-> Stored(interestAboveCap)])
        reimbs == IF IsPositive(interestAboveCap)
                  THEN CreateReimbursement(st.reimbs, p, Stored(interestAboveCap),
                                           st.now + 1)
                  ELSE st.reimbs
        clock  == IF IsPositive(interestAboveCap) THEN st.now + 1 ELSE st.now
    IN  [snaps  |-> snaps,
         reimbs |-> reimbs,
         pos    |-> UpdatePositionDebt(st.pos, p,
                      position.current_debt + Stored(interestAccrued)),
         now    |-> clock]

\* Variant: the loop ends at the first position whose lookup gives no data.
RECURSIVE BorrowerPhase_StopsAtSkip(_, _, _)
BorrowerPhase_StopsAtSkip(st, positions, states) ==
  IF positions = <<>> THEN st
  ELSE IF states[borrower_positions[Head(positions)].market_id].kind # "ok" THEN st
  ELSE BorrowerPhase_StopsAtSkip(
         ProcessPosition(st, Head(positions),
                         states[borrower_positions[Head(positions)].market_id]),
         Tail(positions), states)

\* The loop of processDailySnapshot: every position in turn, each with the
\* answer getMarketState gives for its market; a throw is caught per position.
RECURSIVE BorrowerPhase(_, _, _)
BorrowerPhase(st, positions, states) ==
  IF positions = <<>> THEN st
  ELSE BorrowerPhase(
         ProcessPosition(st, Head(positions),
                         states[borrower_positions[Head(positions)].market_id]),
         Tail(positions), states)

\* processedCount of processDailySnapshot: incremented whenever processPosition
\* returns normally, the early return on a market without state included.
BorrowerProcessedCount(states) ==
  Cardinality({p \in DOMAIN borrower_positions :
                 /\ borrower_positions[p].status = "active"
                 /\ states[borrower_positions[p].market_id] # Throws})

\* What the caller of runDailyInterestProcess sees: the try/catch around the
\* two phases logs the error and returns, so the promise always resolves.
RunOutcome(fatal) == "resolved"

\* SchedulerService.runDailyInterestProcess: the vault phase, then the
\* borrower phase; each entity's getMarketState call gets its market's answer.
DailyCycle ==
  LET st == BorrowerPhase([snaps |-> interest_snapshots, reimbs |-> reimbursements,
                           pos |-> borrower_positions, now |-> now],
                          ActivePositions, market_state)
  IN  /\ tx.pc = "idle"
      /\ Len(st.snaps) <= MaxSnap
      /\ Len(st.reimbs) <= MaxReimb
      /\ st.now <= MaxClock
      /\ vault_supply_snapshots' = VaultPhase(market_state[1])
      /\ interest_snapshots' = st.snaps
      /\ reimbursements' = st.reimbs
      /\ borrower_positions' = st.pos
      /\ now' = st.now
      /\ pre' = Pre
      /\ last' = [op |-> "daily", arg |-> today,
                  ret |-> [vault |-> VaultProcessedCount(market_state[1]),
                           borrower |-> BorrowerProcessedCount(market_state),
                           outcome |-> RunOutcome(FALSE)],
                  sel |-> <<>>, out |-> <<>>,
                  rep |-> last.op = "daily"]
      /\ UNCHANGED <<today, apr_cap, market_state, supply_assets, tx, payments,
                 peer>>

\* The store is unreachable when a phase reads its active entities
\* (getActiveVaultAllocations, getActivePositions): the phase rethrows and
\* runDailyInterestProcess leaves the try block.  A failure of the vault
\* phase skips the borrower phase; a failure of the borrower phase comes
\* after the vault phase has run.
DailyCycleFatal(phase) ==
  /\ tx.pc = "idle"
  /\ vault_supply_snapshots' =
       IF phase = "borrower" THEN VaultPhase(market_state[1])
       ELSE vault_supply_snapshots
  /\ pre' = Pre
  /\ last' = [op |-> "daily_fatal", arg |-> today,
              ret |-> [vault |-> IF phase = "borrower"
                                 THEN VaultProcessedCount(market_state[1]) ELSE 0,
                       borrower |-> 0,
                       outcome |-> RunOutcome(TRUE)],
              sel |-> <<>>, out |-> <<>>, rep |-> FALSE]
  /\ UNCHANGED <<today, now, apr_cap, market_state, supply_assets,
                 borrower_positions, interest_snapshots, reimbursements,
                 tx, payments,
                 peer>>

\* The statements of processPosition after which a failing store write can
\* leave the position: the reimbursement INSERT fails after the snapshot was
\* inserted, or the debt UPDATE fails after both were inserted.
FailingWrites == {"reimbursement", "debt"}

\* processPosition when the named write fails: each statement before it has
\* been committed on its own (pool.query, no transaction), the error is
\* thrown to the loop of processDailySnapshot.
ProcessPositionFailing(st, p, resp, write) ==
  LET done == ProcessPosition(st, p, resp)
  IN  IF resp.kind # "ok" THEN st
      ELSE IF write = "reimbursement" /\ Len(done.reimbs) > Len(st.reimbs)
           THEN [st EXCEPT !.snaps = done.snaps]
           ELSE [done EXCEPT !.pos = st.pos]

\* The loop of processDailySnapshot when a write fails for position fp: the
\* catch block logs the error and the loop goes on.
RECURSIVE BorrowerPhaseWithFault(_, _, _, _, _)
BorrowerPhaseWithFault(st, positions, states, fp, write) ==
  IF positions = <<>> THEN st
  ELSE LET p    == Head(positions)
           resp == states[borrower_positions[p].market_id]
       IN  BorrowerPhaseWithFault(
             IF p = fp THEN ProcessPositionFailing(st, p, resp, write)
                       ELSE ProcessPosition(st, p, resp),
             Tail(positions), states, fp, write)

\* runDailyInterestProcess with a store write that fails while position fp is
\* processed; the position is not counted in processedCount.
DailyCycleWriteFault(fp, write) ==
  LET st == BorrowerPhaseWithFault(
              [snaps |-> interest_snapshots, reimbs |-> reimbursements,
               pos |-> borrower_positions, now |-> now],
              ActivePositions, market_state, fp, write)
  IN  /\ tx.pc = "idle"
      /\ \E k \in 1..Len(ActivePositions) : ActivePositions[k] = fp
      /\ market_state[borrower_positions[fp].market_id].kind = "ok"
      /\ Len(interest_snapshots) + Len(ActivePositions) <= MaxSnap
      /\ Len(reimbursements) + Len(ActivePositions) <= MaxReimb
      /\ now + Len(ActivePositions) <= MaxClock
      /\ vault_supply_snapshots' = VaultPhase(market_state[1])
      /\ interest_snapshots' = st.snaps
      /\ reimbursements' = st.reimbs
      /\ borrower_positions' = st.pos
      /\ now' = st.now
      /\ pre' = Pre
      /\ last' = [op |-> "daily_fault", arg |-> today,
                  ret |-> [vault |-> VaultProcessedCount(market_state[1]),
                           borrower |-> BorrowerProcessedCount(market_state) - 1,
                           outcome |-> RunOutcome(FALSE)],
                  sel |-> <<fp>>, out |-> <<>>, rep |-> FALSE]
      /\ UNCHANGED <<today, apr_cap, market_state, supply_assets, tx, peer,
                     payments>>

\* ------------------------------------------------------------ environment ----
\* Midnight passes: CURRENT_DATE and new Date() move to the next day.
NextDay ==
  /\ tx.pc = "idle"
  /\ today < MaxDay
  /\ today' = today + 1
  /\ last' = NoCall
  /\ pre' = Pre
  /\ UNCHANGED <<now, apr_cap, market_state, supply_assets, borrower_positions,
                 interest_snapshots, vault_supply_snapshots, reimbursements,
                 tx, payments,
                 peer>>

\* testCapUpdate.updateMarketCap: UPDATE markets SET apr_cap = $1
UpdateMarketCap(m, newCap) ==
  /\ tx.pc = "idle"
  /\ apr_cap[m] # newCap
  /\ apr_cap' = [apr_cap EXCEPT ![m] = newCap]
  /\ last' = NoCall
  /\ pre' = Pre
  /\ UNCHANGED <<today, now, market_state, supply_assets, borrower_positions,
                 interest_snapshots, vault_supply_snapshots, reimbursements,
                 tx, payments,
                 peer>>

\* A market moves, or the Morpho API starts or stops answering for it.
RateSourceChange(m, resp) ==
  /\ tx.pc = "idle"
  /\ market_state[m] # resp
  /\ market_state' = [market_state EXCEPT ![m] = resp]
  /\ last' = NoCall
  /\ pre' = Pre
  /\ UNCHANGED <<today, now, apr_cap, supply_assets, borrower_positions,
                 interest_snapshots, vault_supply_snapshots, reimbursements,
                 tx, payments,
                 peer>>

\* ---------------------------------------------------------- borrower sync ----
Borrowers == {1, 2}
\* What getBorrowerPositions reports for a borrower of a market.
SyncEntries ==
  [borrower : Borrowers, market : Markets, borrowedAmount : {500000000, 1000000000}]
\* The lists of entries one syncBorrowers call can work through: one entry,
\* or two of which the second is borrower 2's.
SyncAnswers ==
  {<<e>> : e \in SyncEntries} \cup
  {<<e, f>> : e \in SyncEntries, f \in {g \in SyncEntries : g.borrower = 2}}

\* CONSTRAINT check_borrower_or_vault CHECK ((borrower_id IS NOT NULL AND
\* vault_id IS NULL) OR (borrower_id IS NULL AND vault_id IS NOT NULL))
CheckBorrowerOrVault(row) ==
  \/ row.borrower_id # NULL /\ row.vault_id = NULL
  \/ row.borrower_id = NULL /\ row.vault_id # NULL

\* Variant: the INSERT leaves borrower_id out as well.
NewPosition_NoOwner(e) ==
  [market_id |-> e.market, borrower_id |-> NULL, vault_id |-> NULL,
   current_debt |-> e.borrowedAmount, status |-> "active"]

\* INSERT INTO borrower_positions (borrower_id, market_id, principal_borrowed,
\* current_debt, opened_at, status): vault_id is not named and stays NULL.
NewPosition(e) ==
  [market_id |-> e.market, borrower_id |-> e.borrower, vault_id |-> NULL,
   current_debt |-> e.borrowedAmount, status |-> "active"]

\* SELECT id ... WHERE borrower_id = $1 AND market_id = $2 AND vault_id IS NULL
ExistingPosition(positions, e) ==
  {p \in DOMAIN positions : /\ positions[p].borrower_id = e.borrower
                            /\ positions[p].market_id = e.market
                            /\ positions[p].vault_id = NULL}

\* One iteration of the loop of syncBorrowers: the position found is updated,
\* otherwise one is inserted; a statement the store rejects is caught and
\* logged per borrower.
SyncEntry(positions, e) ==
  IF ExistingPosition(positions, e) # {}
  THEN LET p == CHOOSE x \in ExistingPosition(positions, e) :
                  \A y \in ExistingPosition(positions, e) : x <= y
       IN  [positions EXCEPT ![p].current_debt = e.borrowedAmount,
                             ![p].status = "active"]
  ELSE IF CheckBorrowerOrVault(NewPosition(e))
       THEN Append(positions, NewPosition(e))
       ELSE positions

RECURSIVE SyncAll(_, _)
SyncAll(positions, entries) ==
  IF entries = <<>> THEN positions
  ELSE SyncAll(SyncEntry(positions, Head(entries)), Tail(entries))

\* MorphoService.syncBorrowers with the given answer of the API.
SyncBorrowers(entries) ==
  /\ tx.pc = "idle"
  /\ Len(borrower_positions) + Len(entries) <= MaxPositions
  /\ borrower_positions' = SyncAll(borrower_positions, entries)
  /\ pre' = Pre
  /\ last' = [op |-> "sync", arg |-> 0, ret |-> Len(entries),
              sel |-> entries, out |-> <<>>, rep |-> FALSE]
  /\ UNCHANGED <<today, now, apr_cap, market_state, supply_assets,
                 interest_snapshots, vault_supply_snapshots, reimbursements,
                 tx, payments,
                 peer>>

\* --------------------------------------- Reimbursement Lifecycle: create ----
Ids(table) == 1..Len(table)

\* Variant: no existence check (as in InterestService.createReimbursement).
ExistingReimbursement_Unchecked(table, positionId, day) == {}

\* SELECT id FROM reimbursements WHERE position_id = $1
\*   AND period_start = $2 AND period_end = $2
ExistingReimbursement(table, positionId, day) ==
  {i \in Ids(table) : /\ table[i].position_id = positionId
                      /\ table[i].period_start = day
                      /\ table[i].period_end = day}

\* The snapshots createReimbursementEntries selects for a day.
PositionsNeedingReimbursement(day) ==
  {k \in Ids(interest_snapshots) :
     /\ interest_snapshots[k].snapshot_date = day
     /\ interest_snapshots[k].interest_above_cap > 0
     /\ borrower_positions[interest_snapshots[k].position_id].status = "active"}

\* One iteration of the loop of createReimbursementEntries.
CreateEntry(table, snap, at) ==
  IF ExistingReimbursement(table, snap.position_id, snap.snapshot_date) # {}
  THEN table
  ELSE Append(table, [position_id |-> snap.position_id,
                      amount |-> snap.interest_above_cap,
                      period_start |-> snap.snapshot_date,
                      period_end |-> snap.snapshot_date,
                      status |-> "pending", tx_hash |-> NULL,
                      created_at |-> at, processed_at |-> NULL])

\* The tables the loop can end with: the SELECT has no ORDER BY, so the
\* selected snapshots are visited in any order.
RECURSIVE CreateResults(_, _, _)
CreateResults(table, todo, at) ==
  IF todo = {} THEN {table}
  ELSE UNION {CreateResults(CreateEntry(table, interest_snapshots[k], at),
                            todo \ {k}, at) : k \in todo}

\* ReimbursementService.createReimbursementEntries(date); NOW() is the start
\* time of the transaction, the same for every row the call inserts (the
\* clock of the model advances only when a timestamp is written).
CreateReimbursementEntries(day) ==
  /\ tx.pc = "idle"
  /\ Len(reimbursements) + Cardinality(PositionsNeedingReimbursement(day)) <= MaxReimb
  /\ \E table \in CreateResults(reimbursements, PositionsNeedingReimbursement(day), now + 1) :
       /\ reimbursements' = table
       /\ now' = IF Len(table) > Len(reimbursements) THEN now + 1 ELSE now
       /\ now' <= MaxClock
       /\ pre' = Pre
       /\ last' = [op |-> "create", arg |-> day,
                   ret |-> Len(table) - Len(reimbursements),
                   sel |-> <<>>, out |-> <<>>,
                   rep |-> last.op = "create" /\ last.arg = day]
  /\ UNCHANGED <<today, apr_cap, market_state, supply_assets, borrower_positions,
                 interest_snapshots, vault_supply_snapshots, tx, payments,
                 peer>>

\* Variant: the rows inserted before the failure stay in the table.
Rollback_KeepsWork(committed, working) == working

\* ROLLBACK: the table is what it was when BEGIN was issued.
Rollback(committed, working) == committed

\* The tables the loop of createReimbursementEntries can have built when a
\* statement fails: the snapshots in any subset of the selection were visited.
PartialCreateResults(table, todo, at) ==
  UNION {CreateResults(table, visited, at) : visited \in SUBSET todo}

\* createReimbursementEntries(date) when one of its statements fails (the store
\* closes the connection, a statement times out): the catch block issues
\* ROLLBACK and rethrows the error.
CreateAbort(day) ==
  /\ tx.pc = "idle"
  /\ \E working \in PartialCreateResults(reimbursements,
                                         PositionsNeedingReimbursement(day), now + 1) :
       /\ reimbursements' = Rollback(reimbursements, working)
       /\ Len(reimbursements') <= MaxReimb
       /\ last' = [op |-> "create_abort", arg |-> day,
                   ret |-> [inserted |-> Len(working) - Len(reimbursements),
                            outcome |-> "rejected"],
                   sel |-> <<>>, out |-> <<>>, rep |-> FALSE]
  /\ pre' = Pre
  /\ UNCHANGED <<today, now, apr_cap, market_state, supply_assets, borrower_positions,
                 interest_snapshots, vault_supply_snapshots, tx, payments,
                 peer>>

\* -------------------------------------- Reimbursement Lifecycle: process ----
\* Variant: WHERE r.status <> 'completed' (failed rows are picked up again).
PendingIds_NotCompleted(table) ==
  {i \in 1..Len(table) : table[i].status # "completed"}

\* WHERE r.status = 'pending'
PendingIds(table) == {i \in Ids(table) : table[i].status = "pending"}

\* Variant: ORDER BY created_at DESC in the pending selection.
OldestFirst_Desc(table, cands) ==
  {i \in cands : \A j \in cands : table[i].created_at >= table[j].created_at}

\* The candidates ORDER BY created_at ASC puts first (ties in any order).
OldestFirst(table, cands) ==
  {i \in cands : \A j \in cands : table[i].created_at <= table[j].created_at}

\* Variant: ORDER BY created_at ASC in the failed selection.
NewestFirst_Asc(table, cands) ==
  {i \in cands : \A j \in cands : table[i].created_at <= table[j].created_at}

\* The candidates ORDER BY created_at DESC puts first (ties in any order).
NewestFirst(table, cands) ==
  {i \in cands : \A j \in cands : table[i].created_at >= table[j].created_at}

\* The results of SELECT ... ORDER BY created_at ASC LIMIT k over the candidates.
RECURSIVE SelectAsc(_, _, _)
SelectAsc(table, cands, k) ==
  IF k = 0 \/ cands = {} THEN {<<>>}
  ELSE UNION {{<<i>> \o s : s \in SelectAsc(table, cands \ {i}, k - 1)} :
              i \in OldestFirst(table, cands)}

\* The results of SELECT ... ORDER BY created_at DESC LIMIT k over the candidates.
RECURSIVE SelectDesc(_, _, _)
SelectDesc(table, cands, k) ==
  IF k = 0 \/ cands = {} THEN {<<>>}
  ELSE UNION {{<<i>> \o s : s \in SelectDesc(table, cands \ {i}, k - 1)} :
              i \in NewestFirst(table, cands)}

\* Variant: the LIMIT is dropped, every pending row is selected.
PendingSelections_NoLimit(table, limit) ==
  SelectAsc(table, {i \in 1..Len(table) : table[i].status = "pending"}, Len(table))

\* WHERE r.status = 'pending' ORDER BY r.created_at ASC LIMIT $1
PendingSelections(table, limit) == SelectAsc(table, PendingIds(table), limit)

\* UPDATE reimbursements SET status = 'completed', tx_hash = $1, processed_at = NOW()
CompletedUpdate(row, txHash, at) ==
  [row EXCEPT !.status = "completed", !.tx_hash = txHash, !.processed_at = at]

\* Variant: the failure branch forgets processed_at.
FailedUpdate_NoTimestamp(row, at) == [row EXCEPT !.status = "failed"]

\* UPDATE reimbursements SET status = 'failed', processed_at = NOW()
FailedUpdate(row, at) ==
  [row EXCEPT !.status = "failed", !.processed_at = at]

\* The table with the status updates of an open transaction applied.
ApplyUpdates(table, sel, out, at) ==
  [i \in Ids(table) |->
     IF \E k \in 1..Len(out) : sel[k] = i
     THEN LET k == CHOOSE k \in 1..Len(out) : sel[k] = i
          IN  IF out[k] # NULL THEN CompletedUpdate(table[i], out[k], at)
                               ELSE FailedUpdate(table[i], at)
     ELSE table[i]]

\* The counters of the loop: processed++ per payment made, failed++ per throw.
Processed(out) == Cardinality({k \in 1..Len(out) : out[k] # NULL})
Failed(out)    == Cardinality({k \in 1..Len(out) : out[k] = NULL})

\* BEGIN and the SELECT of processPendingReimbursements(limit).
ProcessBegin(limit) ==
  /\ tx.pc = "idle"
  /\ \E sel \in PendingSelections(reimbursements, limit) :
       /\ tx' = [pc |-> "run", limit |-> limit, sel |-> sel, out |-> <<>>,
                 start |-> now + 1]
       /\ now' = IF sel # <<>> THEN now + 1 ELSE now
       /\ now' <= MaxClock
  /\ UNCHANGED <<today, apr_cap, market_state, supply_assets, borrower_positions,
                 interest_snapshots, vault_supply_snapshots, reimbursements,
                 payments, last, pre,
                 peer>>

\* One iteration of the loop: simulatePayment returns a hash and the item is
\* updated to completed, or it throws and the item is updated to failed.
ProcessItem ==
  /\ tx.pc = "run"
  /\ Len(tx.out) < Len(tx.sel)
  /\ LET id == tx.sel[Len(tx.out) + 1]
     IN  \/ \E txHash \in Hashes :
              /\ tx' = [tx EXCEPT !.out = Append(@, txHash)]
              /\ payments' = [payments EXCEPT ![id] = @ + 1]
         \/ /\ tx' = [tx EXCEPT !.out = Append(@, NULL)]
            /\ UNCHANGED payments
  /\ UNCHANGED <<today, now, apr_cap, market_state, supply_assets,
                 borrower_positions, interest_snapshots, vault_supply_snapshots,
                 reimbursements, last, pre,
                 peer>>

\* COMMIT after the loop; the call returns {processed, failed}.
ProcessCommit ==
  /\ tx.pc = "run"
  /\ Len(tx.out) = Len(tx.sel)
  /\ reimbursements' = ApplyUpdates(reimbursements, tx.sel, tx.out, tx.start)
  /\ pre' = Pre
  /\ last' = [op |-> "process", arg |-> tx.limit,
              ret |-> [processed |-> Processed(tx.out),
                       failed |-> Failed(tx.out)],
              sel |-> tx.sel, out |-> tx.out, rep |-> FALSE]
  /\ tx' = IdleTx
  /\ UNCHANGED <<today, now, apr_cap, market_state, supply_assets,
                 borrower_positions, interest_snapshots, vault_supply_snapshots,
                 payments,
                 peer>>

\* The store fails or the process dies while the transaction is open: the
\* catch block issues ROLLBACK (or the server drops the open transaction).
ProcessAbort ==
  /\ tx.pc = "run"
  /\ pre' = Pre
  /\ last' = [op |-> "process_abort", arg |-> tx.limit, ret |-> 0,
              sel |-> tx.sel, out |-> tx.out, rep |-> FALSE]
  /\ tx' = IdleTx
  /\ UNCHANGED <<today, now, apr_cap, market_state, supply_assets,
                 borrower_positions, interest_snapshots, vault_supply_snapshots,
                 reimbursements, payments,
                 peer>>

\* A second processPendingReimbursements(limit) starts on another pool client
\* while the first is open (two POST /process requests, or the script and a
\* request): its SELECT takes no lock and does not see the uncommitted
\* updates of the first.
PeerBegin(limit) ==
  /\ tx.pc = "run"
  /\ peer.pc = "idle"
  /\ \E sel \in PendingSelections(reimbursements, limit) :
       /\ peer' = [pc |-> "run", limit |-> limit, sel |-> sel, out |-> <<>>,
                   start |-> now + 1]
       /\ now' = IF sel # <<>> THEN now + 1 ELSE now
       /\ now' <= MaxClock
  /\ UNCHANGED <<today, apr_cap, market_state, supply_assets, borrower_positions,
                 interest_snapshots, vault_supply_snapshots, reimbursements,
                 tx, payments, last, pre>>

\* One iteration of the loop of the second invocation: the payment is made or
\* fails, then the UPDATE is issued (it waits for the row lock if the first
\* invocation has updated the row).
PeerItem ==
  /\ peer.pc = "run"
  /\ Len(peer.out) < Len(peer.sel)
  /\ LET id == peer.sel[Len(peer.out) + 1]
     IN  \/ \E txHash \in Hashes :
              /\ peer' = [peer EXCEPT !.out = Append(@, txHash)]
              /\ payments' = [payments EXCEPT ![id] = @ + 1]
         \/ /\ peer' = [peer EXCEPT !.out = Append(@, NULL)]
            /\ UNCHANGED payments
  /\ UNCHANGED <<today, now, apr_cap, market_state, supply_assets,
                 borrower_positions, interest_snapshots, vault_supply_snapshots,
                 reimbursements, tx, last, pre>>

\* COMMIT of the second invocation, after the first has ended: its UPDATE ...
\* WHERE id = $n statements apply to the rows as the first has left them.
PeerCommit ==
  /\ peer.pc = "run"
  /\ Len(peer.out) = Len(peer.sel)
  /\ tx.pc = "idle"
  /\ reimbursements' = ApplyUpdates(reimbursements, peer.sel, peer.out, peer.start)
  /\ pre' = Pre
  /\ last' = [op |-> "process_overlap", arg |-> peer.limit,
              ret |-> [processed |-> Processed(peer.out),
                       failed |-> Failed(peer.out)],
              sel |-> peer.sel, out |-> peer.out, rep |-> FALSE]
  /\ peer' = IdleTx
  /\ UNCHANGED <<today, now, apr_cap, market_state, supply_assets,
                 borrower_positions, interest_snapshots, vault_supply_snapshots,
                 tx, payments>>

\* ---------------------------------------- Reimbursement Lifecycle: retry ----
\* Variant: WHERE status <> 'pending' (completed rows are reset as well).
FailedIds_AnyProcessed(table) ==
  {i \in 1..Len(table) : table[i].status # "pending"}

\* WHERE status = 'failed'
FailedIds(table) == {i \in Ids(table) : table[i].status = "failed"}

\* SELECT id ... WHERE status = 'failed' ORDER BY created_at DESC LIMIT $1
FailedSelections(table, limit) == SelectDesc(table, FailedIds(table), limit)

\* Variant: the reset also clears the amount.
RetryUpdate_ClearsAmount(row) ==
  [row EXCEPT !.status = "pending", !.tx_hash = NULL, !.processed_at = NULL,
              !.amount = 0]

\* SET status = 'pending', tx_hash = NULL, processed_at = NULL
\* Variant: the retry clears the payment fields and leaves the status alone.
RetryUpdate_KeepsStatus(row) ==
  [row EXCEPT !.tx_hash = NULL, !.processed_at = NULL]

RetryUpdate(row) ==
  [row EXCEPT !.status = "pending", !.tx_hash = NULL, !.processed_at = NULL]

Range(s) == {s[k] : k \in 1..Len(s)}

\* ReimbursementService.retryFailedReimbursements(limit)
RetryFailedReimbursements(limit) ==
  /\ tx.pc = "idle"
  /\ FailedIds(reimbursements) # {}
  /\ \E sel \in FailedSelections(reimbursements, limit) :
       /\ reimbursements' =
            [i \in Ids(reimbursements) |->
               IF i \in Range(sel) /\ i \in FailedIds(reimbursements)
               THEN RetryUpdate(reimbursements[i]) ELSE reimbursements[i]]
       /\ last' = [op |-> "retry", arg |-> limit,
                   ret |-> Len(sel), sel |-> sel, out |-> <<>>, rep |-> FALSE]
  /\ pre' = Pre
  /\ UNCHANGED <<today, now, apr_cap, market_state, supply_assets,
                 borrower_positions, interest_snapshots, vault_supply_snapshots,
                 tx, payments,
                 peer>>

\* ---------------------------------------------------------- specification ----
Next ==
  \/ DailyCycle
  \/ \E phase \in {"vault", "borrower"} : DailyCycleFatal(phase)
  \/ \E fp \in PosIds, write \in FailingWrites : DailyCycleWriteFault(fp, write)
  \/ NextDay
  \/ \E m \in Markets, resp \in RateResp : RateSourceChange(m, resp)
  \/ \E m \in Markets, c \in Caps : UpdateMarketCap(m, c)
  \/ \E d \in Days : CreateReimbursementEntries(d)
  \/ \E d \in Days : CreateAbort(d)
  \/ \E n \in Limits : ProcessBegin(n)
  \/ ProcessItem
  \/ ProcessCommit
  \/ ProcessAbort
  \/ \E n \in Limits : RetryFailedReimbursements(n)
  \/ \E entries \in SyncAnswers : SyncBorrowers(entries)
  \/ \E n \in Limits : PeerBegin(n)
  \/ PeerItem
  \/ PeerCommit

Spec == Init /\ [][Next]_vars

\* The snapshot engine and reimbursement creation under a changing environment
\* (no payment processing).  Both positions and the allocation are on market 1,
\* whose rate and cap change between calls; market 2 holds nothing here.
MovingMarkets == {1}

NextSnapshot ==
  \/ DailyCycle
  \/ NextDay
  \/ \E m \in MovingMarkets, resp \in RateResp : RateSourceChange(m, resp)
  \/ \E m \in MovingMarkets, c \in Caps : UpdateMarketCap(m, c)
  \/ \E d \in Days : CreateReimbursementEntries(d)

SpecSnapshot == Init /\ [][NextSnapshot]_vars

\* The snapshot engine and reimbursement creation with calls that fail: the
\* store becomes unreachable at the start of a phase of the daily cycle or in
\* the middle of createReimbursementEntries.
NextFailure ==
  \/ DailyCycle
  \/ \E phase \in {"vault", "borrower"} : DailyCycleFatal(phase)
  \/ \E fp \in PosIds, write \in FailingWrites : DailyCycleWriteFault(fp, write)
  \/ NextDay
  \/ \E d \in Days : CreateReimbursementEntries(d)
  \/ \E d \in Days : CreateAbort(d)

SpecFailure == Init /\ [][NextFailure]_vars

\* The reimbursement lifecycle, from the store as the first daily cycle leaves
\* it (both positions above the cap, hence two reimbursements created inline).
InitLifecycle ==
  /\ today = 1
  /\ now = 2
  /\ apr_cap = [m \in Markets |-> 10]
  /\ market_state = [m \in Markets |-> [kind |-> "ok", borrowApy |-> 18, supplyApy |-> 15]]
  /\ supply_assets = 1000000000
  /\ borrower_positions =
       [p \in PosIds |-> [market_id |-> 1, borrower_id |-> p, vault_id |-> NULL,
                          current_debt |-> 1000493151, status |-> "active"]]
  /\ interest_snapshots =
       [p \in PosIds |-> [position_id |-> p, snapshot_date |-> 1,
                          current_rate |-> 18, capped_rate |-> 10,
                          interest_accrued |-> 493151,
                          interest_above_cap |-> 219178]]
  /\ vault_supply_snapshots =
       {[vault_id |-> 1, market_id |-> 1, snapshot_date |-> 1,
         supply_amount |-> 1000000000, supply_apy |-> 15, capped_apy |-> 10,
         interest_earned |-> 410959, interest_above_cap |-> 136986]}
  /\ reimbursements =
       [p \in PosIds |-> [position_id |-> p, amount |-> 219178,
                          period_start |-> 0, period_end |-> 1,
                          status |-> "pending", tx_hash |-> NULL,
                          created_at |-> p, processed_at |-> NULL]]
  /\ tx = IdleTx
  /\ peer = IdleTx
  /\ payments = [i \in 1..MaxReimb |-> 0]
  /\ last = NoCall
  /\ pre = [reimbursements |-> reimbursements,
            interest_snapshots |-> interest_snapshots,
            vault_supply_snapshots |-> vault_supply_snapshots,
            borrower_positions |-> borrower_positions,
            supply_assets |-> supply_assets]

NextLifecycle ==
  \/ \E d \in Days : CreateReimbursementEntries(d)
  \/ \E n \in Limits : ProcessBegin(n)
  \/ ProcessItem
  \/ ProcessCommit
  \/ \E n \in Limits : RetryFailedReimbursements(n)

SpecLifecycle == InitLifecycle /\ [][NextLifecycle]_vars

\* The lifecycle with store failures and crashes of an open process call.
NextCrash ==
  \/ \E d \in Days : CreateReimbursementEntries(d)
  \/ \E n \in Limits : ProcessBegin(n)
  \/ ProcessItem
  \/ ProcessCommit
  \/ ProcessAbort
  \/ \E n \in Limits : RetryFailedReimbursements(n)

SpecCrash == InitLifecycle /\ [][NextCrash]_vars

\* The lifecycle with two overlapping process invocations.
NextOverlap ==
  \/ \E n \in Limits : ProcessBegin(n)
  \/ ProcessItem
  \/ ProcessCommit
  \/ \E n \in Limits : PeerBegin(n)
  \/ PeerItem
  \/ PeerCommit
  \/ \E n \in Limits : RetryFailedReimbursements(n)

SpecOverlap == InitLifecycle /\ [][NextOverlap]_vars

\* ------------------------------------------------- repeated process/retry ----
\* BEGIN and the SELECT of processPendingReimbursements(limit) once the clock
\* stands at the last timestamp the model tells apart: NOW() is recorded as
\* MaxClock from then on (created_at, which orders the selections, is not
\* written by process or retry).
ProcessBeginLate(limit) ==
  /\ tx.pc = "idle"
  /\ now = MaxClock
  /\ \E sel \in PendingSelections(reimbursements, limit) :
       /\ sel # <<>>
       /\ tx' = [pc |-> "run", limit |-> limit, sel |-> sel, out |-> <<>>,
                 start |-> MaxClock]
  /\ UNCHANGED <<today, now, apr_cap, market_state, supply_assets,
                 borrower_positions, interest_snapshots, vault_supply_snapshots,
                 reimbursements, payments, last, pre, peer>>

\* simulatePayment returns a hash for reimbursement i.
PaymentSucceeds(i) == ProcessItem /\ payments'[i] = payments[i] + 1

\* process and retry are each invoked again and again, an invocation that
\* has begun runs to its COMMIT, and the payment of no reimbursement throws
\* forever.
RepeatedInvocation ==
  /\ SF_vars(\E n \in Limits : ProcessBegin(n) \/ ProcessBeginLate(n))
  /\ WF_vars(ProcessItem)
  /\ WF_vars(ProcessCommit)
  /\ SF_vars(\E n \in Limits : RetryFailedReimbursements(n))
  /\ \A i \in 1..MaxReimb : SF_vars(PaymentSucceeds(i))

\* No reimbursement is created any more; process and retry go on.
NextLive ==
  \/ \E n \in Limits : ProcessBegin(n)
  \/ \E n \in Limits : ProcessBeginLate(n)
  \/ ProcessItem
  \/ ProcessCommit
  \/ \E n \in Limits : RetryFailedReimbursements(n)

SpecLive == InitLifecycle /\ [][NextLive]_vars /\ RepeatedInvocation

\* The scenario of the process step: six daily cycles (days 1..6, rate 18,
\* cap 10) have left twelve pending reimbursements, one per position and day,
\* inserted one after the other; timestamps count from the scenario's start,
\* so the rows were created at -12 .. -1.
DefaultLimit == 10

RECURSIVE DebtAfter(_)
DebtAfter(n) ==
  IF n = 0 THEN 1000000000
  ELSE DebtAfter(n - 1) + DailyInterest(DebtAfter(n - 1), 18)

ScenarioPos(i) == ((i - 1) % 2) + 1
ScenarioDay(i) == ((i - 1) \div 2) + 1
ScenarioAboveCap(i) ==
  DailyInterest(DebtAfter(ScenarioDay(i) - 1), 18)
    - DailyInterest(DebtAfter(ScenarioDay(i) - 1), 10)

InitScenario ==
  /\ today = 6
  /\ now = 0
  /\ apr_cap = [m \in Markets |-> 10]
  /\ market_state = [m \in Markets |-> [kind |-> "ok", borrowApy |-> 18, supplyApy |-> 15]]
  /\ supply_assets = 1000000000
  /\ borrower_positions =
       [p \in PosIds |-> [market_id |-> 1, borrower_id |-> p, vault_id |-> NULL,
                          current_debt |-> DebtAfter(6), status |-> "active"]]
  /\ interest_snapshots =
       [i \in 1..12 |->
          [position_id |-> ScenarioPos(i), snapshot_date |-> ScenarioDay(i),
           current_rate |-> 18, capped_rate |-> 10,
           interest_accrued |-> DailyInterest(DebtAfter(ScenarioDay(i) - 1), 18),
           interest_above_cap |-> ScenarioAboveCap(i)]]
  /\ vault_supply_snapshots =
       {[vault_id |-> 1, market_id |-> 1, snapshot_date |-> d,
         supply_amount |-> 1000000000, supply_apy |-> 15, capped_apy |-> 10,
         interest_earned |-> 410959, interest_above_cap |-> 136986] : d \in 1..6}
  /\ reimbursements =
       [i \in 1..12 |->
          [position_id |-> ScenarioPos(i), amount |-> ScenarioAboveCap(i),
           period_start |-> ScenarioDay(i) - 1, period_end |-> ScenarioDay(i),
           status |-> "pending", tx_hash |-> NULL,
           created_at |-> i - 13, processed_at |-> NULL]]
  /\ tx = IdleTx
  /\ peer = IdleTx
  /\ payments = [i \in 1..12 |-> 0]
  /\ last = NoCall
  /\ pre = [reimbursements |-> reimbursements,
            interest_snapshots |-> interest_snapshots,
            vault_supply_snapshots |-> vault_supply_snapshots,
            borrower_positions |-> borrower_positions,
            supply_assets |-> supply_assets]

\* One processPendingReimbursements() call with the default limit.
ProcessDefault ==
  /\ last = NoCall
  /\ ProcessBegin(DefaultLimit)

NextScenario ==
  \/ ProcessDefault
  \/ ProcessItem
  \/ ProcessCommit

SpecScenario == InitScenario /\ [][NextScenario]_vars

\* The snapshot engine on every combination of inputs: position p is on
\* market p, the allocation on market 1; caps, rate answers, principals and
\* position statuses are drawn from small sets, zero and negative values
\* included (no column has a CHECK constraint that excludes them).
CapInputs  == {0 - 5, 0, 12}
Principals == {0 - 1000000000, 0, 1000000000}
Statuses   == {"active", "closed"}

InitInputs ==
  /\ today = 1
  /\ now = 0
  /\ apr_cap \in [Markets -> CapInputs]
  /\ market_state \in [Markets -> RateResp]
  /\ supply_assets \in Principals
  /\ borrower_positions \in
       {[p \in PosIds |-> [market_id |-> p, borrower_id |-> p, vault_id |-> NULL,
                           current_debt |-> debt[p], status |-> status[p]]] :
          debt \in [PosIds -> Principals], status \in [PosIds -> Statuses]}
  /\ interest_snapshots = <<>>
  /\ vault_supply_snapshots = {}
  /\ reimbursements = <<>>
  /\ tx = IdleTx
  /\ peer = IdleTx
  /\ payments = [i \in 1..MaxReimb |-> 0]
  /\ last = NoCall
  /\ pre = [reimbursements |-> reimbursements,
            interest_snapshots |-> interest_snapshots,
            vault_supply_snapshots |-> vault_supply_snapshots,
            borrower_positions |-> borrower_positions,
            supply_assets |-> supply_assets]

NextInputs ==
  \/ DailyCycle
  \/ \E d \in Days : CreateReimbursementEntries(d)

SpecInputs == InitInputs /\ [][NextInputs]_vars

\* The borrower sync and the snapshot engine on a table that holds a position
\* of a vault and, possibly, a position of borrower 1.
InitSync ==
  /\ today = 1
  /\ now = 0
  /\ apr_cap = [m \in Markets |-> 10]
  /\ market_state = [m \in Markets |-> [kind |-> "ok", borrowApy |-> 18, supplyApy |-> 15]]
  /\ supply_assets = 1000000000
  /\ borrower_positions \in
       {<<[market_id |-> 1, borrower_id |-> NULL, vault_id |-> 1,
           current_debt |-> 1000000000, status |-> "active"]>>,
        <<[market_id |-> 1, borrower_id |-> NULL, vault_id |-> 1,
           current_debt |-> 1000000000, status |-> "active"],
          [market_id |-> 1, borrower_id |-> 1, vault_id |-> NULL,
           current_debt |-> 1000000000, status |-> "closed"]>>}
  /\ interest_snapshots = <<>>
  /\ vault_supply_snapshots = {}
  /\ reimbursements = <<>>
  /\ tx = IdleTx
  /\ peer = IdleTx
  /\ payments = [i \in 1..MaxReimb |-> 0]
  /\ last = NoCall
  /\ pre = [reimbursements |-> reimbursements,
            interest_snapshots |-> interest_snapshots,
            vault_supply_snapshots |-> vault_supply_snapshots,
            borrower_positions |-> borrower_positions,
            supply_assets |-> supply_assets]

NextSync ==
  \/ \E entries \in SyncAnswers : SyncBorrowers(entries)
  \/ DailyCycle

SpecSync == InitSync /\ [][NextSync]_vars

\* ================================================================ claims ====
SnapshotsOf(table, p, d) ==
  {k \in 1..Len(table) : table[k].position_id = p /\ table[k].snapshot_date = d}

SupplyRowsOf(table, d) ==
  {r \in table : r.vault_id = 1 /\ r.market_id = 1 /\ r.snapshot_date = d}

\* C1: there is at most one reimbursement row per (position, snapshot day),
\* whichever creation path inserted it (the snapshot day of a row is its
\* period_end).  Violated by the code.
C1_OneReimbursementPerPositionDay ==
  \A i, j \in 1..Len(reimbursements) :
    (/\ reimbursements[i].position_id = reimbursements[j].position_id
     /\ reimbursements[i].period_end = reimbursements[j].period_end) => i = j

\* C2: after a second daily cycle on the same day with the same rate and cap
\* (nothing happened between the two runs), every active position has exactly
\* one interest snapshot for the day and that row is a row the first run left.
\* Violated by the code.
C2_RerunKeepsOneSnapshot ==
  (last.op = "daily" /\ last.rep /\ \A m \in Markets : market_state[m].kind = "ok") =>
    \A p \in PosIds :
      borrower_positions[p].status = "active" =>
        /\ Cardinality(SnapshotsOf(interest_snapshots, p, today)) = 1
        /\ \A k \in SnapshotsOf(interest_snapshots, p, today) :
             \E j \in SnapshotsOf(pre.interest_snapshots, p, today) :
               pre.interest_snapshots[j] = interest_snapshots[k]

\* C3: in every step a reimbursement's status stays as it is or changes along
\* pending->completed, pending->failed or failed->pending; so completed is
\* terminal and failed never becomes completed directly.
C3_StatusTransitions ==
  [][\A i \in 1..Len(reimbursements) :
       reimbursements[i].status # reimbursements'[i].status =>
         <<reimbursements[i].status, reimbursements'[i].status>> \in
           {<<"pending", "completed">>, <<"pending", "failed">>,
            <<"failed", "pending">>}]_vars

\* C3 witness: a retry has just reset a failed row while another row is
\* completed and a third is still failed.
C3_Witness ==
  /\ last.op = "retry" /\ last.ret > 0
  /\ \E i \in 1..Len(reimbursements) : reimbursements[i].status = "completed"
  /\ \E i \in 1..Len(reimbursements) : reimbursements[i].status = "failed"
  /\ \A k \in 1..Len(last.sel) :
       /\ pre.reimbursements[last.sel[k]].status = "failed"
       /\ reimbursements[last.sel[k]].status = "pending"

\* C4: a createReimbursementEntries(day) call that directly follows another one
\* for the same day returns 0 and leaves the reimbursements table unchanged.
C4_SecondCreateInsertsNothing ==
  (last.op = "create" /\ last.rep) =>
    (last.ret = 0 /\ reimbursements = pre.reimbursements)

\* C4 witness: the second of two calls for a day whose first call inserted rows.
C4_Witness ==
  /\ last.op = "create" /\ last.rep /\ last.ret = 0
  /\ Cardinality({i \in 1..Len(reimbursements) :
                    /\ reimbursements[i].period_start = last.arg
                    /\ reimbursements[i].period_end = last.arg}) = 2

\* C5: when a process call has committed, every selected item has its own
\* outcome: paid items are completed with the payment reference and a
\* processed timestamp, items whose payment threw are failed with a processed
\* timestamp and no reference, wherever in the batch the failures happened.
C5_PerItemOutcome ==
  last.op = "process" =>
    /\ Len(last.out) = Len(last.sel)
    /\ \A k \in 1..Len(last.sel) :
         LET r == reimbursements[last.sel[k]]
         IN  IF last.out[k] # NULL
             THEN /\ r.status = "completed"
                  /\ r.tx_hash = last.out[k]
                  /\ r.processed_at # NULL
             ELSE /\ r.status = "failed"
                  /\ r.tx_hash = NULL
                  /\ r.processed_at # NULL

\* C5 witness: a batch of three whose second payment failed, between two
\* payments that succeeded.
C5_Witness ==
  /\ last.op = "process" /\ Len(last.out) = 3
  /\ last.out[1] # NULL /\ last.out[2] = NULL /\ last.out[3] # NULL
  /\ reimbursements[last.sel[1]].status = "completed"
  /\ reimbursements[last.sel[2]].status = "failed"
  /\ reimbursements[last.sel[3]].status = "completed"

\* C6: when a process call is interrupted, the items whose status update was
\* issued keep their new status in the store.  Violated by the code.
C6_AbortKeepsIssuedUpdates ==
  last.op = "process_abort" =>
    \A k \in 1..Len(last.out) :
      reimbursements[last.sel[k]].status =
        (IF last.out[k] # NULL THEN "completed" ELSE "failed")

\* C7: vault_supply_snapshots holds at most one row per (vault, market, day),
\* and after a daily cycle that processed the allocation the row of the day
\* carries the values computed in that run, with the cap of that run.
C7_VaultUpsert ==
  /\ \A d \in Days : Cardinality(SupplyRowsOf(vault_supply_snapshots, d)) <= 1
  /\ (last.op = "daily" /\ market_state[1].kind = "ok" /\ supply_assets > 0) =>
       SupplyRowsOf(vault_supply_snapshots, today) =
         {SupplyRow(market_state[1].supplyApy)}

\* C7 witness: the day's row showed interest above the cap, the cap was raised,
\* and the rerun left one row with the new cap and nothing above it.
C7_Witness ==
  /\ last.op = "daily"
  /\ \E old \in SupplyRowsOf(pre.vault_supply_snapshots, today) :
     \E new \in SupplyRowsOf(vault_supply_snapshots, today) :
       /\ old.interest_above_cap > 0
       /\ new.capped_apy > old.capped_apy
       /\ new.supply_apy = old.supply_apy
       /\ new.interest_above_cap = 0

\* C8: the selection of a process call has min(limit, pending) items, all of
\* them pending and pairwise different, and no pending row left out was
\* created strictly before a selected one.
C8_OldestFirst ==
  tx.pc = "run" =>
    LET P == PendingIds(reimbursements)
        S == Range(tx.sel)
    IN  /\ Len(tx.sel) = Min(tx.limit, Cardinality(P))
        /\ Cardinality(S) = Len(tx.sel)
        /\ S \subseteq P
        /\ \A i \in S, j \in P \ S :
             reimbursements[j].created_at >= reimbursements[i].created_at

\* C8 witness: the limit cuts the selection, a younger pending row is left
\* out, and an older row that is not pending is passed over.
C8_Witness ==
  /\ tx.pc = "run" /\ Len(tx.sel) = tx.limit
  /\ PendingIds(reimbursements) \ Range(tx.sel) # {}
  /\ \E i \in Range(tx.sel), j \in 1..Len(reimbursements) :
       /\ reimbursements[j].status # "pending"
       /\ reimbursements[j].created_at < reimbursements[i].created_at

\* C9 as stated: when a call with the default limit has committed on twelve
\* pending rows, the payment of row 7 having thrown and every other payment
\* having succeeded, it returns processed=11, failed=1, leaves row 7 failed and every
\* other row completed, with pairwise distinct payment references.  Violated:
\* the limit leaves rows 11 and 12 untouched.
C9_ElevenProcessed ==
  (/\ last.op = "process" /\ last.arg = DefaultLimit
   /\ Cardinality(PendingIds(pre.reimbursements)) = 12
   /\ \A k \in 1..Len(last.out) : (last.out[k] = NULL) <=> (last.sel[k] = 7)) =>
    /\ last.ret = [processed |-> 11, failed |-> 1]
    /\ reimbursements[7].status = "failed"
    /\ \A i \in 1..12 : i # 7 => reimbursements[i].status = "completed"
    /\ \A i, j \in 1..12 :
         (i # j /\ i # 7 /\ j # 7) =>
           reimbursements[i].tx_hash # reimbursements[j].tx_hash

\* C9 amended: the call selects the 10 oldest rows and returns processed=9,
\* failed=1; row 7 is failed without reference, rows 1-6 and 8-10 are
\* completed with the reference their payment returned, and rows 11 and 12
\* stay pending exactly as they were.
C9_NineProcessed ==
  (/\ last.op = "process" /\ last.arg = DefaultLimit
   /\ Cardinality(PendingIds(pre.reimbursements)) = 12
   /\ \A k \in 1..Len(last.out) : (last.out[k] = NULL) <=> (last.sel[k] = 7)) =>
    /\ last.ret = [processed |-> 9, failed |-> 1]
    /\ last.sel = [k \in 1..10 |-> k]
    /\ reimbursements[7].status = "failed"
    /\ reimbursements[7].tx_hash = NULL
    /\ \A k \in (1..10) \ {7} :
         /\ reimbursements[k].status = "completed"
         /\ reimbursements[k].tx_hash = last.out[k]
         /\ payments[k] = 1
    /\ \A i \in {11, 12} :
         /\ reimbursements[i] = pre.reimbursements[i]
         /\ reimbursements[i].status = "pending"
         /\ payments[i] = 0

\* C9 witness: the call of the scenario has committed with row 7 failed and
\* rows 11 and 12 still pending.
C9_Witness ==
  /\ last.op = "process" /\ last.arg = DefaultLimit
  /\ Cardinality(PendingIds(pre.reimbursements)) = 12
  /\ \A k \in 1..Len(last.out) : (last.out[k] = NULL) <=> (last.sel[k] = 7)
  /\ Len(last.out) = DefaultLimit
  /\ reimbursements[7].status = "failed"
  /\ reimbursements[10].status = "completed"
  /\ reimbursements[12].status = "pending"

\* C10 as stated: retry resets min(limit, failed) rows, the ones whose failure
\* (processed_at) is the latest, clears their reference and timestamp and
\* returns the number reset.  Violated: the code orders by created_at.
C10_LatestFailureFirst ==
  last.op = "retry" =>
    LET F == FailedIds(pre.reimbursements)
        S == Range(last.sel)
    IN  /\ last.ret = Min(last.arg, Cardinality(F))
        /\ Cardinality(S) = last.ret
        /\ S \subseteq F
        /\ \A i \in S : /\ reimbursements[i].status = "pending"
                        /\ reimbursements[i].tx_hash = NULL
                        /\ reimbursements[i].processed_at = NULL
        /\ \A i \in S, j \in F \ S :
             pre.reimbursements[j].processed_at <= pre.reimbursements[i].processed_at

\* C10 amended: retry resets min(limit, failed) rows, the ones created most
\* recently (latest created_at first), clears their reference and timestamp
\* and returns the number reset.
C10_LatestCreatedFirst ==
  last.op = "retry" =>
    LET F == FailedIds(pre.reimbursements)
        S == Range(last.sel)
    IN  /\ last.ret = Min(last.arg, Cardinality(F))
        /\ Cardinality(S) = last.ret
        /\ S \subseteq F
        /\ \A i \in S : /\ reimbursements[i].status = "pending"
                        /\ reimbursements[i].tx_hash = NULL
                        /\ reimbursements[i].processed_at = NULL
        /\ \A i \in 1..Len(reimbursements) :
             i \notin S => reimbursements[i] = pre.reimbursements[i]
        /\ \A i \in S, j \in F \ S :
             pre.reimbursements[j].created_at <= pre.reimbursements[i].created_at

\* C10 witness: the limit cuts the retry, so a failed row created earlier
\* stays failed.
C10_Witness ==
  /\ last.op = "retry" /\ last.ret = last.arg
  /\ \E i \in Range(last.sel), j \in FailedIds(reimbursements) :
       pre.reimbursements[j].created_at < pre.reimbursements[i].created_at

\* C11: after createReimbursementEntries(day) has committed, every interest
\* snapshot of that day with interest_above_cap > 0 on an active position has
\* a pending reimbursement with period_start = period_end = day and the
\* snapshot's amount; every row the call inserted belongs to such a snapshot;
\* and the returned count is the number of rows inserted.  Violated by the
\* code.
C11_CreateCoversEverySnapshot ==
  last.op = "create" =>
    /\ \A k \in PositionsNeedingReimbursement(last.arg) :
         \E i \in Ids(reimbursements) :
           /\ reimbursements[i].position_id = interest_snapshots[k].position_id
           /\ reimbursements[i].period_start = last.arg
           /\ reimbursements[i].period_end = last.arg
           /\ reimbursements[i].status = "pending"
           /\ reimbursements[i].amount = interest_snapshots[k].interest_above_cap
    /\ \A i \in Ids(reimbursements) \ Ids(pre.reimbursements) :
         \E k \in PositionsNeedingReimbursement(last.arg) :
           /\ reimbursements[i].position_id = interest_snapshots[k].position_id
           /\ reimbursements[i].amount = interest_snapshots[k].interest_above_cap
    /\ last.ret = Len(reimbursements) - Len(pre.reimbursements)

\* C12: when a statement of createReimbursementEntries fails, whatever the
\* call had inserted before, the call ends with an error and the
\* reimbursements table is as it was before the call.
C12_FailedCreateLeavesNothing ==
  last.op = "create_abort" =>
    /\ last.ret.outcome = "rejected"
    /\ reimbursements = pre.reimbursements

\* C12 witness: a create call failed after it had inserted a row.
C12_Witness ==
  /\ last.op = "create_abort"
  /\ last.ret.inserted > 0
  /\ reimbursements = pre.reimbursements

\* Rows the last call added for position p.
NewSnapshotsOf(p) ==
  {k \in Ids(interest_snapshots) \ Ids(pre.interest_snapshots) :
     interest_snapshots[k].position_id = p}

NewReimbursementsOf(p) ==
  {i \in Ids(reimbursements) \ Ids(pre.reimbursements) :
     reimbursements[i].position_id = p}

\* The rate lookup of the last daily cycle gave no data for market m.
NoRateData(m) == market_state[m].kind # "ok"

\* C13: in a daily cycle, an entity whose rate lookup gives no data (an
\* exception or a market without state) gets no snapshot, no reimbursement and
\* no debt change; every other active position gets its snapshot in the same
\* run; and the run ends normally.
C13_SkipAndContinue ==
  last.op = "daily" =>
    /\ last.ret.outcome = "resolved"
    /\ \A p \in PosIds :
         borrower_positions[p].status = "active" =>
           IF NoRateData(borrower_positions[p].market_id)
           THEN /\ NewSnapshotsOf(p) = {}
                /\ NewReimbursementsOf(p) = {}
                /\ borrower_positions[p] = pre.borrower_positions[p]
           ELSE Cardinality(NewSnapshotsOf(p)) = 1
    /\ (ActiveAllocations # {} /\ NoRateData(1)) =>
         vault_supply_snapshots = pre.vault_supply_snapshots
    /\ (ActiveAllocations # {} /\ ~NoRateData(1)) =>
         SupplyRowsOf(vault_supply_snapshots, today) # {}

\* C13 witness: the first position of the run was skipped for lack of rate
\* data, and the position after it was processed.
C13_Witness ==
  /\ last.op = "daily"
  /\ borrower_positions[1].status = "active"
  /\ borrower_positions[2].status = "active"
  /\ NoRateData(borrower_positions[1].market_id)
  /\ NewSnapshotsOf(1) = {}
  /\ Cardinality(NewSnapshotsOf(2)) = 1

\* C14: the success count a snapshot phase reports equals the number of
\* entities for which the run wrote a snapshot; an entity skipped for a market
\* without state is not counted.  Violated by the code.
C14_CountIsSnapshotsWritten ==
  last.op = "daily" =>
    /\ last.ret.borrower = Len(interest_snapshots) - Len(pre.interest_snapshots)
    /\ last.ret.vault = IF ActiveAllocations # {} /\ ~NoRateData(1) THEN 1 ELSE 0

\* C15: a daily cycle that meets a fatal condition (the store cannot be read
\* when a phase fetches its active entities) ends with that error for its
\* caller, runManually or the cron callback.  Violated by the code.
C15_FatalErrorReachesCaller ==
  last.op = "daily_fatal" => last.ret.outcome = "rejected"

\* C16: a daily cycle that ends in a fatal error has written nothing: no
\* snapshot row of either phase, no reimbursement row, no debt update.
\* Violated by the code.
C16_FatalRunWritesNothing ==
  last.op = "daily_fatal" =>
    /\ vault_supply_snapshots = pre.vault_supply_snapshots
    /\ interest_snapshots = pre.interest_snapshots
    /\ reimbursements = pre.reimbursements
    /\ borrower_positions = pre.borrower_positions

\* p * k - Denominator * a, computed without leaving 32 bits.
Remainder(a, p, k) ==
  Denominator * ((p \div Denominator) * k - a) + (p % Denominator) * k

\* a is p * (k / 100) / 365 in micro-tokens, rounded to the nearest unit.
IsDailyShare(a, p, k) ==
  /\ 0 - Denominator <= 2 * Remainder(a, p, k)
  /\ 2 * Remainder(a, p, k) < Denominator

\* The row has interest accrued p*r/365 and above cap max(0, p*(r-c)/365).
FollowsFormula(accrued, aboveCap, p, r, c) ==
  /\ IsDailyShare(accrued, p, r)
  /\ IF (p > 0 /\ r > c) \/ (p < 0 /\ r < c)
     THEN IsDailyShare(aboveCap, p, r - c)
     ELSE aboveCap = 0

\* C17: every snapshot a daily cycle writes has interest accrued = p*r/365 and
\* interest above cap = max(0, p*(r-c)/365), where p is the principal at the
\* start of the run (current_debt, supply_assets), r the observed annual rate
\* (borrow APY, supply APY) and c the cap of the market; p = 1000, r = 18%,
\* c = 12% give 0.493151 and 0.164384.
C17_SnapshotFormula ==
  last.op = "daily" =>
    /\ \A k \in Ids(interest_snapshots) \ Ids(pre.interest_snapshots) :
         LET row == interest_snapshots[k]
             p   == pre.borrower_positions[row.position_id].current_debt
             r   == market_state[borrower_positions[row.position_id].market_id].borrowApy
             c   == apr_cap[borrower_positions[row.position_id].market_id]
         IN  /\ row.current_rate = r
             /\ row.capped_rate = c
             /\ FollowsFormula(row.interest_accrued, row.interest_above_cap, p, r, c)
             /\ (p = 1000000000 /\ r = 18 /\ c = 12) =>
                  /\ row.interest_accrued = 493151
                  /\ row.interest_above_cap = 164384
    /\ (ActiveAllocations # {} /\ ~NoRateData(1)) =>
         \A row \in SupplyRowsOf(vault_supply_snapshots, today) :
           /\ row.supply_amount = supply_assets
           /\ row.supply_apy = market_state[1].supplyApy
           /\ row.capped_apy = apr_cap[1]
           /\ FollowsFormula(row.interest_earned, row.interest_above_cap,
                             supply_assets, market_state[1].supplyApy, apr_cap[1])

\* C17 witness: one run wrote the snapshot of the example (1000 at 18% under a
\* 12% cap), a snapshot whose rate is below the cap, and the vault's row.
C17_Witness ==
  /\ last.op = "daily"
  /\ \E k \in Ids(interest_snapshots) \ Ids(pre.interest_snapshots) :
       /\ pre.borrower_positions[interest_snapshots[k].position_id].current_debt = 1000000000
       /\ interest_snapshots[k].current_rate = 18
       /\ interest_snapshots[k].capped_rate = 12
       /\ interest_snapshots[k].interest_accrued = 493151
       /\ interest_snapshots[k].interest_above_cap = 164384
  /\ \E k \in Ids(interest_snapshots) \ Ids(pre.interest_snapshots) :
       /\ interest_snapshots[k].current_rate < interest_snapshots[k].capped_rate
       /\ interest_snapshots[k].interest_accrued > 0
       /\ interest_snapshots[k].interest_above_cap = 0
  /\ SupplyRowsOf(vault_supply_snapshots, today) # {}

C19_ZeroSnapshotRecorded ==
  last.op = "daily" =>
    /\ \A p \in PosIds :
         (/\ borrower_positions[p].status = "active"
          /\ ~NoRateData(borrower_positions[p].market_id)
          /\ pre.borrower_positions[p].current_debt <= 0) =>
           /\ NewSnapshotsOf(p) # {}
           /\ \A k \in NewSnapshotsOf(p) :
                /\ interest_snapshots[k].interest_accrued = 0
                /\ interest_snapshots[k].interest_above_cap = 0
    /\ (supply_assets <= 0 /\ ~NoRateData(1)) =>
         /\ SupplyRowsOf(vault_supply_snapshots, today) # {}
         /\ \A row \in SupplyRowsOf(vault_supply_snapshots, today) :
              /\ row.interest_earned = 0
              /\ row.interest_above_cap = 0

\* C20: after a daily cycle, every borrower position for which the run wrote a
\* snapshot has current_debt = its debt before the run + that snapshot's
\* interest_accrued, every other position has the row it had before the run,
\* and supply_assets of the vault allocation is what it was.
C20_DebtGrowsByAccrued ==
  last.op = "daily" =>
    /\ \A p \in PosIds :
         IF NewSnapshotsOf(p) # {}
         THEN \A k \in NewSnapshotsOf(p) :
                borrower_positions[p].current_debt =
                  pre.borrower_positions[p].current_debt
                    + interest_snapshots[k].interest_accrued
         ELSE borrower_positions[p] = pre.borrower_positions[p]
    /\ supply_assets = pre.supply_assets

\* C20 witness: one run increased the debt of a processed position by a
\* non-zero interest, skipped another position, and wrote the vault's row.
C20_Witness ==
  /\ last.op = "daily"
  /\ \E p, q \in PosIds :
       /\ NewSnapshotsOf(p) # {}
       /\ borrower_positions[p].current_debt > pre.borrower_positions[p].current_debt
       /\ NewSnapshotsOf(q) = {}
       /\ borrower_positions[q].status = "active"
  /\ SupplyRowsOf(vault_supply_snapshots, today) # SupplyRowsOf(pre.vault_supply_snapshots, today)
  /\ supply_assets = pre.supply_assets

\* The orders in which the loop of a phase could visit the given positions.
Orders(positions) ==
  {ord \in [1..Len(positions) -> Range(positions)] :
     \A i, j \in 1..Len(positions) : ord[i] = ord[j] => i = j}

\* The rows a run appended to a table that had n rows, without their serial
\* ids and creation timestamps (both follow the order of insertion).
AddedSnapshots(table, n) == {table[k] : k \in (n + 1)..Len(table)}
AddedReimbursements(table, n) ==
  {[table[k] EXCEPT !.created_at = NULL] : k \in (n + 1)..Len(table)}

\* C21: a daily cycle computes every entity's accrual from the balance read
\* at the start of the run: whichever order the borrower phase had visited the
\* active positions in, it would have written the same snapshots, the same
\* reimbursements and the same debts as the run that took place.
C21_OrderIndependent ==
  [][last'.op = "daily" =>
       \A ord \in Orders(ActivePositions) :
         LET st == BorrowerPhase([snaps |-> interest_snapshots,
                                  reimbs |-> reimbursements,
                                  pos |-> borrower_positions, now |-> now],
                                 ord, market_state)
         IN  /\ Len(st.snaps) = Len(interest_snapshots')
             /\ AddedSnapshots(st.snaps, Len(interest_snapshots)) =
                  AddedSnapshots(interest_snapshots', Len(interest_snapshots))
             /\ Len(st.reimbs) = Len(reimbursements')
             /\ AddedReimbursements(st.reimbs, Len(reimbursements)) =
                  AddedReimbursements(reimbursements', Len(reimbursements))
             /\ st.pos = borrower_positions']_vars

\* C21 witness: a run processed two positions with different accruals, so
\* there were two orders to take and something to carry from one position to
\* the next.
C21_Witness ==
  /\ last.op = "daily"
  /\ NewSnapshotsOf(1) # {}
  /\ NewSnapshotsOf(2) # {}
  /\ \E j \in NewSnapshotsOf(1), k \in NewSnapshotsOf(2) :
       /\ interest_snapshots[j].interest_accrued > 0
       /\ interest_snapshots[k].interest_accrued > 0
       /\ interest_snapshots[j].interest_accrued # interest_snapshots[k].interest_accrued

\* C22: a failed reimbursement is never retried automatically.  A process
\* call leaves every row that is failed or completed when it selects as it is
\* and has no such row in its selection; a payment is only ever executed for a
\* row that is pending; and a row goes from failed to pending only in a step of
\* retryFailedReimbursements.
C22_NoAutomaticRetry ==
  [][/\ (tx.pc = "run" /\ tx'.pc = "idle" /\ last'.op = "process") =>
          \A i \in Ids(reimbursements) :
            reimbursements[i].status \in {"failed", "completed"} =>
              /\ reimbursements'[i] = reimbursements[i]
              /\ i \notin Range(tx.sel)
     /\ \A i \in Ids(reimbursements) :
          /\ payments'[i] # payments[i] =>
               /\ i \in Range(tx.sel)
               /\ reimbursements[i].status = "pending"
          /\ (reimbursements[i].status = "failed"
              /\ reimbursements'[i].status = "pending") =>
               /\ tx.pc = "idle"
               /\ last'.op = "retry"
               /\ i \in Range(last'.sel)]_vars

\* C22 witness: a process call committed payments while an earlier failure
\* was in the table, and the failed row is as it was.
C22_Witness ==
  /\ last.op = "process"
  /\ last.ret.processed > 0
  /\ \E i \in Ids(pre.reimbursements) :
       /\ pre.reimbursements[i].status = "failed"
       /\ reimbursements[i] = pre.reimbursements[i]
       /\ payments[i] = 0

\* C23: a step of retryFailedReimbursements executes no payment, inserts and
\* deletes no row, leaves every row that is pending or completed as it is, and
\* changes nothing but status, payment reference and processed timestamp of
\* the failed rows it resets.
C23_RetryIsPureTransition ==
  [][(tx.pc = "idle" /\ tx'.pc = "idle" /\ last'.op = "retry") =>
       /\ payments' = payments
       /\ Len(reimbursements') = Len(reimbursements)
       /\ \A i \in Ids(reimbursements) :
            /\ reimbursements[i].status \in {"pending", "completed"} =>
                 reimbursements'[i] = reimbursements[i]
            /\ reimbursements'[i].position_id = reimbursements[i].position_id
            /\ reimbursements'[i].amount = reimbursements[i].amount
            /\ reimbursements'[i].period_start = reimbursements[i].period_start
            /\ reimbursements'[i].period_end = reimbursements[i].period_end
            /\ reimbursements'[i].created_at = reimbursements[i].created_at]_vars

\* C23 witness: a retry reset a failed row while a completed row was in the
\* table; the reset row keeps its amount and the completed row is untouched.
C23_Witness ==
  /\ last.op = "retry"
  /\ \E i, j \in Ids(pre.reimbursements) :
       /\ pre.reimbursements[i].status = "failed"
       /\ reimbursements[i].status = "pending"
       /\ reimbursements[i].amount = pre.reimbursements[i].amount
       /\ reimbursements[i].amount > 0
       /\ pre.reimbursements[j].status = "completed"
       /\ reimbursements[j] = pre.reimbursements[j]

\* C24: every row of borrower_positions has exactly one of borrower_id and
\* vault_id set, and a borrower sync leaves each borrower it was given with a
\* position of its own (borrower_id set, vault_id NULL) that carries the
\* reported amount.
C24_ExactlyOneOwner ==
  /\ \A p \in DOMAIN borrower_positions :
       (borrower_positions[p].borrower_id = NULL)
         # (borrower_positions[p].vault_id = NULL)
  /\ last.op = "sync" =>
       \A k \in 1..Len(last.sel) :
         \E p \in DOMAIN borrower_positions :
           /\ borrower_positions[p].borrower_id = last.sel[k].borrower
           /\ borrower_positions[p].vault_id = NULL
           /\ borrower_positions[p].market_id = last.sel[k].market
           /\ borrower_positions[p].status = "active"

\* C24 witness: a sync inserted a position next to the vault's position and
\* the engine has since compounded both.
C24_Witness ==
  /\ last.op = "daily"
  /\ \E p, q \in DOMAIN borrower_positions :
       /\ borrower_positions[p].vault_id # NULL
       /\ borrower_positions[q].borrower_id = 2
       /\ NewSnapshotsOf(p) # {}
       /\ NewSnapshotsOf(q) # {}

\* C25: over every behaviour (overlapping process invocations, aborted
\* invocations, retries in between) the payment of a reimbursement is executed
\* successfully at most once.  Violated by the code.
C25_PaidAtMostOnce ==
  \A i \in Ids(reimbursements) : payments[i] <= 1

\* C26: a position's debt is compounded at most once per calendar day: a
\* daily cycle that runs on a day on which the position already has a snapshot
\* leaves its current_debt as the earlier run left it.  Violated by the code.
C26_CompoundedOncePerDay ==
  last.op = "daily" =>
    \A p \in PosIds :
      SnapshotsOf(pre.interest_snapshots, p, today) # {} =>
        borrower_positions[p].current_debt = pre.borrower_positions[p].current_debt

\* The snapshot stored last for position p and day d.
LatestSnapshot(p, d) ==
  CHOOSE k \in SnapshotsOf(interest_snapshots, p, d) :
    \A j \in SnapshotsOf(interest_snapshots, p, d) : j <= k

\* C27: the amount of every pending reimbursement equals the interest above
\* cap of the snapshot currently stored for its position and day, also after
\* the engine has been rerun for the day with a changed cap.  Violated by the
\* code.
C27_PendingAmountFollowsSnapshot ==
  \A i \in Ids(reimbursements) :
    (/\ reimbursements[i].status = "pending"
     /\ SnapshotsOf(interest_snapshots, reimbursements[i].position_id,
                    reimbursements[i].period_end) # {}) =>
      reimbursements[i].amount =
        interest_snapshots[LatestSnapshot(reimbursements[i].position_id,
                                          reimbursements[i].period_end)].interest_above_cap

\* The snapshots and the reimbursements the last run added for position p.
RunSnapshots(p) ==
  {k \in (Len(pre.interest_snapshots) + 1)..Len(interest_snapshots) :
     interest_snapshots[k].position_id = p}
RunReimbursements(p) ==
  {k \in (Len(pre.reimbursements) + 1)..Len(reimbursements) :
     reimbursements[k].position_id = p}

\* C28: processing one position is all-or-nothing.  When a daily cycle ends,
\* also one in which a store write failed while a position was processed,
\* each position has the snapshot of the run, its reimbursement (when the
\* interest above cap is positive) and its compounded debt written, or none
\* of the three.  Violated by the code.
C28_PositionAllOrNothing ==
  last.op \in {"daily", "daily_fault"} =>
    \A p \in DOMAIN borrower_positions :
      \/ /\ RunSnapshots(p) = {}
         /\ RunReimbursements(p) = {}
         /\ borrower_positions[p] = pre.borrower_positions[p]
      \/ \E k \in RunSnapshots(p) :
           /\ RunSnapshots(p) = {k}
           /\ borrower_positions[p].current_debt =
                pre.borrower_positions[p].current_debt +
                  interest_snapshots[k].interest_accrued
           /\ IF interest_snapshots[k].interest_above_cap > 0
              THEN \E r \in RunReimbursements(p) :
                     /\ RunReimbursements(p) = {r}
                     /\ reimbursements[r].amount =
                          interest_snapshots[k].interest_above_cap
              ELSE RunReimbursements(p) = {}

\* C29: in every reachable state the fields of each reimbursement agree with
\* its status: a pending one has no payment reference and no processed
\* timestamp, a completed one has both, a failed one has a processed timestamp
\* and no payment reference.  Violated by the code when two invocations of
\* process overlap.
C29_FieldsAgreeWithStatus ==
  \A i \in Ids(reimbursements) :
    LET r == reimbursements[i]
    IN  /\ r.status = "pending" => r.tx_hash = NULL /\ r.processed_at = NULL
        /\ r.status = "completed" => r.tx_hash # NULL /\ r.processed_at # NULL
        /\ r.status = "failed" => r.tx_hash = NULL /\ r.processed_at # NULL

\* C30: when process and retry are each invoked again and again, no
\* reimbursement is created any more and the payment of no reimbursement fails
\* forever, every reimbursement is eventually completed: neither the
\* oldest-first selection of process nor the newest-first selection of retry
\* leaves one pending or failed forever.
C30_EventuallyAllCompleted ==
  <>(\A i \in Ids(reimbursements) : reimbursements[i].status = "completed")

\* C30 witness: a retry with limit 1 reset the newest failed reimbursement and
\* left an older failed one behind, which needs a later retry to be paid.
C30_Witness ==
  /\ last.op = "retry"
  /\ last.arg = 1
  /\ \E i, j \in Ids(reimbursements) :
       /\ reimbursements[i].created_at < reimbursements[j].created_at
       /\ reimbursements[i].status = "failed"
       /\ pre.reimbursements[j].status = "failed"
       /\ reimbursements[j].status = "pending"
====
